---- MODULE Spec2Model ----
(***************************************************************************)
(* A model of dbacademy.dbhelper.workspace_cleaner.WorkspaceCleaner: the   *)
(* two reset procedures (reset_lesson, reset_learning_environment), the    *)
(* resource handlers they call, and the shared workspace they act on.      *)
(* Names are sequences of one-character strings so that split() and        *)
(* startswith() are computed, not assumed.                                 *)
(***************************************************************************)
EXTENDS Integers, Sequences, FiniteSets, TLC

\* ------------------------------------------------------------------ bounds
MaxNameLen == 3      \* longest generated candidate name (matcher runs)
MaxVersions == 2     \* versions in the model registry
MaxStreams == 1      \* active streams at the start of a run
MaxRaces == 1        \* resources a concurrent reclamation run may remove
MaxPolls == 2        \* sleeps of one polling loop that are followed

\* ------------------------------------------------------------- characters
Chars == {"u", "1", "0", "_", "-"}
None == <<"None">>

NamesUpTo(n) == UNION {[1..k -> Chars] : k \in 0..n}

\* The unique names the naming collaborator supplies: non-empty, built with
\* the separator "-" and never containing "_".
UniqueNames == {<<"u", "1">>, <<"u">>, <<"u", "-", "1">>}

\* ---------------------------------------------------------- str operations
IndexOf(s, c) == IF \E i \in 1..Len(s) : s[i] = c
                 THEN CHOOSE i \in 1..Len(s) : s[i] = c /\ \A j \in 1..(i-1) : s[j] # c
                 ELSE 0

RECURSIVE Split(_, _)
Split(s, c) == IF IndexOf(s, c) = 0 THEN <<s>>
               ELSE <<SubSeq(s, 1, IndexOf(s, c) - 1)>>
                    \o Split(SubSeq(s, IndexOf(s, c) + 1, Len(s)), c)

StartsWith(s, p) == Len(p) <= Len(s) /\ SubSeq(s, 1, Len(p)) = p

Last(s) == s[Len(s)]

Lower(stage) == CASE stage = "Production" -> "production"
                  [] stage = "Staging" -> "staging"
                  [] stage = "Archived" -> "archived"
                  [] OTHER -> "none"

InSeq(s, x) == \E i \in 1..Len(s) : s[i] = x

RECURSIVE Without(_, _)
Without(s, x) == IF s = <<>> THEN <<>>
                 ELSE IF Head(s) = x THEN Without(Tail(s), x)
                 ELSE <<Head(s)>> \o Without(Tail(s), x)

\* --------------------------------------------------------------- matching
\* The body of "for part in name.split('_')": whether the part appends the
\* resource to the selected list.
PartAppends(part, uname, lessonOnly) ==
    IF lessonOnly /\ uname = part THEN TRUE
    ELSE IF StartsWith(part, uname) THEN TRUE
    ELSE FALSE

RECURSIVE AppendsOf(_, _, _, _)
AppendsOf(name, parts, uname, lessonOnly) ==
    IF parts = <<>> THEN <<>>
    ELSE (IF PartAppends(Head(parts), uname, lessonOnly) THEN <<name>> ELSE <<>>)
         \o AppendsOf(name, Tail(parts), uname, lessonOnly)

\* The filter loop over a listing: one append per matching part.
RECURSIVE FilterByName(_, _, _)
FilterByName(listing, uname, lessonOnly) ==
    IF listing = <<>> THEN <<>>
    ELSE AppendsOf(Head(listing), Split(Head(listing), "_"), uname, lessonOnly)
         \o FilterByName(Tail(listing), uname, lessonOnly)

\* ------------------------------------------------------------------ state
VARIABLES
    entry,              \* the method invoked on the WorkspaceCleaner
    lesson_only,        \* the scope argument the ML handlers receive
    enable_ml_support,  \* lesson_config.enable_ml_support
    create_catalog,     \* lesson_config.create_catalog
    session_name,       \* what da.unique_name("-") returns
    workspace_name,     \* what da.to_unique_name(lesson_config, "-") returns
    unique_name,        \* self.__unique_name, None until first computed
    streams,            \* workspace: the active streams
    endpoints,          \* workspace: serving endpoint names, in listing order
    models,             \* workspace: registered models [name, stages], in listing order
    pending,            \* workspace: stage transitions requested, not yet reflected
    experiments,        \* workspace: active experiments [name, object_type]
    feature_tables,     \* workspace: feature store table names
    catalogs,           \* workspace: catalog names
    schemas,            \* workspace: <<catalog, schema>> pairs
    paths,              \* workspace: the storage paths that exist
    pools,              \* workspace: instance pool names
    policies,           \* workspace: cluster policy names
    pc,                 \* position of the run
    status,             \* reset_lesson's local "status"
    ret,                \* what each handler returned in this run
    log,                \* the platform calls issued by this run, in order
    raised,             \* the exception that left the run, or "none"
    printed_no_action,  \* whether "| No action taken" was printed
    matched,            \* the handler's local list of selected resources
    idx,                \* position in the handler's loop over matched
    polls,              \* sleeps of the polling loop for the current model
    outer,              \* __reset_databases: the catalogs its second loop has yet to visit
    acted,              \* the handlers that removed or stopped something that existed
    races               \* removals done so far by the concurrent run

cfgVars == <<entry, lesson_only, enable_ml_support, create_catalog,
             session_name, workspace_name>>
mlVars == <<endpoints, models, pending, experiments, feature_tables>>
nsVars == <<catalogs, schemas, paths>>
computeVars == <<pools, policies>>
loopVars == <<matched, idx, polls, outer>>
vars == <<cfgVars, unique_name, streams, mlVars, nsVars, computeVars, pc, status,
          ret, log, raised, printed_no_action, loopVars, acted, races>>

\* -------------------------------------------------------------- sequencer
Handlers == {"_stop_all_streams", "_drop_feature_store_tables",
             "_cleanup_mlflow_endpoints", "_cleanup_mlflow_models",
             "_cleanup_experiments", "_drop_catalog", "_drop_schema",
             "_cleanup_working_dir", "__reset_databases", "__reset_datasets",
             "__reset_archives", "__reset_working_dir", "__drop_instance_pool",
             "__drop_cluster_policies"}

\* reset_lesson with the working directory cleaned before the namespace drops.
reset_lesson_working_dir_first(h) ==
    CASE h = "clearCache" -> "_stop_all_streams"
      [] h = "_stop_all_streams" ->
            IF enable_ml_support THEN "_cleanup_mlflow_endpoints" ELSE "_cleanup_working_dir"
      [] h = "_cleanup_mlflow_endpoints" -> "_cleanup_mlflow_models"
      [] h = "_cleanup_mlflow_models" -> "_cleanup_experiments"
      [] h = "_cleanup_experiments" -> "_cleanup_working_dir"
      [] h = "_cleanup_working_dir" -> "_drop_catalog"
      [] h = "_drop_catalog" -> "_drop_schema"
      [] OTHER -> "summary"

\* reset_lesson: the step that follows step h.
reset_lesson(h) ==
    CASE h = "clearCache" -> "_stop_all_streams"
      [] h = "_stop_all_streams" ->
            IF enable_ml_support THEN "_cleanup_mlflow_endpoints" ELSE "_drop_catalog"
      [] h = "_cleanup_mlflow_endpoints" -> "_cleanup_mlflow_models"
      [] h = "_cleanup_mlflow_models" -> "_cleanup_experiments"
      [] h = "_cleanup_experiments" -> "_drop_catalog"
      [] h = "_drop_catalog" -> "_drop_schema"
      [] h = "_drop_schema" -> "_cleanup_working_dir"
      [] OTHER -> "summary"

\* reset_learning_environment with the pools and policies dropped right
\* after the ML resources.
reset_learning_environment_pools_first(h) ==
    CASE h = "clearCache" -> "_stop_all_streams"
      [] h = "_stop_all_streams" ->
            IF enable_ml_support THEN "_drop_feature_store_tables" ELSE "__drop_instance_pool"
      [] h = "_drop_feature_store_tables" -> "_cleanup_mlflow_endpoints"
      [] h = "_cleanup_mlflow_endpoints" -> "_cleanup_mlflow_models"
      [] h = "_cleanup_mlflow_models" -> "_cleanup_experiments"
      [] h = "_cleanup_experiments" -> "__drop_instance_pool"
      [] h = "__drop_instance_pool" -> "__drop_cluster_policies"
      [] h = "__drop_cluster_policies" -> "__reset_databases"
      [] h = "__reset_databases" -> "__reset_datasets"
      [] h = "__reset_datasets" -> "__reset_archives"
      [] h = "__reset_archives" -> "__reset_working_dir"
      [] OTHER -> "summary"

\* reset_learning_environment: the step that follows step h.
reset_learning_environment(h) ==
    CASE h = "clearCache" -> "_stop_all_streams"
      [] h = "_stop_all_streams" ->
            IF enable_ml_support THEN "_drop_feature_store_tables" ELSE "__reset_databases"
      [] h = "_drop_feature_store_tables" -> "_cleanup_mlflow_endpoints"
      [] h = "_cleanup_mlflow_endpoints" -> "_cleanup_mlflow_models"
      [] h = "_cleanup_mlflow_models" -> "_cleanup_experiments"
      [] h = "_cleanup_experiments" -> "__reset_databases"
      [] h = "__reset_databases" -> "__reset_datasets"
      [] h = "__reset_datasets" -> "__reset_archives"
      [] h = "__reset_archives" -> "__reset_working_dir"
      [] h = "__reset_working_dir" -> "__drop_instance_pool"
      [] h = "__drop_instance_pool" -> "__drop_cluster_policies"
      [] OTHER -> "summary"

\* Where control goes when step h of the invoked method is over; a handler
\* invoked on its own returns to its caller.
After(h) == IF entry = "reset_lesson" THEN reset_lesson(h)
            ELSE IF entry = "reset_learning_environment" THEN reset_learning_environment(h)
            ELSE "done"

\* "status = self._h() or status" with the operands swapped: the handler
\* call is skipped once status is true.
ReturnsShortCircuit(h, value) ==
    /\ ret' = [ret EXCEPT ![h] = IF value THEN "True" ELSE "False"]
    /\ status' = IF entry = "reset_lesson" THEN (value \/ status) ELSE status
    /\ pc' = IF entry = "reset_lesson" /\ status' THEN "summary" ELSE After(h)

\* Handler h returns value: reset_lesson folds it into status, after the call;
\* reset_learning_environment discards it.
Returns(h, value) ==
    /\ ret' = [ret EXCEPT ![h] = IF value THEN "True" ELSE "False"]
    /\ status' = IF entry = "reset_lesson" THEN (value \/ status) ELSE status
    /\ pc' = After(h)

\* The reset method catches what a handler raises and ends as if it had
\* completed.
RaiseCaughtByReset(e) == /\ raised' = "none"
                         /\ pc' = "summary"
                         /\ UNCHANGED <<status, ret>>

\* An exception leaves the handler; neither reset method catches anything.
Raise(e) == /\ raised' = e
            /\ pc' = "raised"
            /\ UNCHANGED <<status, ret>>

Goto(p) == /\ pc' = p
           /\ UNCHANGED <<status, ret, raised>>

Call(c) == log' = Append(log, c)

Acted(h, existed) == acted' = IF existed THEN acted \cup {h} ELSE acted

\* _get_unique_name: computed on first use, then returned from the cache.
_get_unique_name(lessonOnly) ==
    IF unique_name # None THEN unique_name
    ELSE IF lessonOnly THEN session_name
    ELSE workspace_name

ClearCache ==
    /\ pc = "clearCache"
    /\ Call(<<"clearCache", None>>)
    /\ Goto(After("clearCache"))
    /\ UNCHANGED <<cfgVars, unique_name, streams, mlVars, nsVars, computeVars,
                   printed_no_action, loopVars, acted, races>>

\* The last lines of reset_lesson and of reset_learning_environment.
Summary ==
    /\ pc = "summary"
    /\ printed_no_action' = (entry = "reset_lesson" /\ ~status)
    /\ Goto("done")
    /\ UNCHANGED <<cfgVars, unique_name, streams, mlVars, nsVars, computeVars,
                   log, loopVars, acted, races>>

\* ---------------------------------------------------------------- streams
RECURSIVE Ascending(_)
Ascending(S) == IF S = {} THEN <<>>
                ELSE LET m == CHOOSE x \in S : \A y \in S : x <= y
                     IN <<m>> \o Ascending(S \ {m})

\* The calls of the loop over the streams ss; awaitTermination raises for the
\* streams in bad.
RECURSIVE StopCalls(_, _)
StopCalls(ss, bad) ==
    IF ss = <<>> THEN <<>>
    ELSE <<(<<"stream.stop", Head(ss)>>),
           (<<"stream.awaitTermination", Head(ss),
              IF Head(ss) \in bad THEN "raised" ELSE "ok">>)>> \o StopCalls(Tail(ss), bad)

\* awaitTermination called outside any try: its error leaves the handler.
AwaitErrorsPropagate(bad) ==
    IF bad = {} THEN Returns("_stop_all_streams", TRUE) /\ UNCHANGED raised
    ELSE Raise("Error")

\* "try: stream.awaitTermination() except: pass": whatever the await raised,
\* the loop goes on and the handler returns True.
AwaitErrorsBuried(bad) == Returns("_stop_all_streams", TRUE) /\ UNCHANGED raised

\* _stop_all_streams, up to the emptiness test.
_stop_all_streams ==
    /\ pc = "_stop_all_streams"
    /\ Call(<<"active_streams", streams>>)
    /\ IF Cardinality(streams) = 0
       THEN Returns("_stop_all_streams", FALSE) /\ UNCHANGED raised
       ELSE Goto("_stop_all_streams:loop")
    /\ UNCHANGED <<cfgVars, unique_name, streams, mlVars, nsVars, computeVars,
                   printed_no_action, loopVars, acted, races>>

\* _stop_all_streams, the loop over a second active_streams() enumeration;
\* whatever awaitTermination raises is buried.
_stop_all_streams_loop ==
    /\ pc = "_stop_all_streams:loop"
    /\ log' = log \o <<(<<"active_streams", streams>>)>> \o StopCalls(Ascending(streams), {})
    /\ streams' = {}
    /\ Acted("_stop_all_streams", streams # {})
    /\ Returns("_stop_all_streams", TRUE)
    /\ UNCHANGED <<cfgVars, unique_name, mlVars, nsVars, computeVars, raised,
                   printed_no_action, loopVars, races>>

\* The same loop when awaitTermination raises for some of the streams.
_stop_all_streams_loop_await_raises ==
    /\ pc = "_stop_all_streams:loop"
    /\ \E bad \in (SUBSET streams) \ {{}} :
         /\ log' = log \o <<(<<"active_streams", streams>>)>>
                       \o StopCalls(Ascending(streams), bad)
         /\ AwaitErrorsBuried(bad)
    /\ streams' = {}
    /\ Acted("_stop_all_streams", TRUE)
    /\ UNCHANGED <<cfgVars, unique_name, mlVars, nsVars, computeVars,
                   printed_no_action, loopVars, races>>

\* A stream terminates on its own between the two enumerations.
EnvStreamEnds ==
    /\ pc = "_stop_all_streams:loop"
    /\ races < MaxRaces
    /\ \E s \in streams : streams' = streams \ {s}
    /\ races' = races + 1
    /\ UNCHANGED <<cfgVars, unique_name, mlVars, nsVars, computeVars, pc, status, ret,
                   log, raised, printed_no_action, loopVars, acted>>

\* -------------------------------------------------------------- endpoints
NoError == [http_code |-> 200, error_code |-> "OK"]
ApiErrors == [http_code : {404, 500}, error_code : {"FEATURE_DISABLED", "INTERNAL_ERROR"}]

\* The except clause testing the HTTP code alone.
FeatureDisabledAnyNotFound(e) == e.http_code = 404

\* The except clause of _cleanup_mlflow_endpoints: the error that is turned
\* into an empty listing.
FeatureDisabled(e) == e.http_code = 404 /\ e.error_code = "FEATURE_DISABLED"

\* The loop "for endpoint in endpoints" / "for model in models" moves on.
Advance(h) ==
    IF idx = Len(matched)
    THEN Returns(h, TRUE) /\ UNCHANGED <<raised, idx>>
    ELSE idx' = idx + 1 /\ UNCHANGED <<pc, status, ret, raised>>

\* _cleanup_mlflow_endpoints, up to the loop that deletes.
_cleanup_mlflow_endpoints ==
    /\ pc = "_cleanup_mlflow_endpoints"
    /\ unique_name' = _get_unique_name(lesson_only)
    /\ \E e \in {NoError} \cup ApiErrors :
         IF e # NoError /\ ~FeatureDisabled(e)
         THEN /\ Call(<<"serving_endpoints.list:raised", e>>)
              /\ Raise("DatabricksApiException")
              /\ UNCHANGED <<matched, idx>>
         ELSE LET existing == IF e = NoError THEN endpoints ELSE <<>>
                  selected == FilterByName(existing, unique_name', lesson_only)
              IN /\ Call(IF e = NoError THEN <<"serving_endpoints.list", existing>>
                                       ELSE <<"serving_endpoints.list:raised", e>>)
                 /\ matched' = selected
                 /\ idx' = 1
                 /\ IF Len(selected) = 0
                    THEN Returns("_cleanup_mlflow_endpoints", FALSE) /\ UNCHANGED raised
                    ELSE Goto("_cleanup_mlflow_endpoints:delete")
    /\ UNCHANGED <<cfgVars, streams, mlVars, nsVars, computeVars, printed_no_action,
                   polls, outer, acted, races>>

\* One iteration of "for endpoint in endpoints": delete_by_name, unguarded.
_cleanup_mlflow_endpoints_delete ==
    /\ pc = "_cleanup_mlflow_endpoints:delete"
    /\ LET name == matched[idx]
       IN /\ Call(<<"serving_endpoints.delete_by_name", name>>)
          /\ Acted("_cleanup_mlflow_endpoints", InSeq(endpoints, name))
          /\ IF InSeq(endpoints, name)
             THEN endpoints' = Without(endpoints, name)
                  /\ Advance("_cleanup_mlflow_endpoints")
             ELSE /\ UNCHANGED endpoints
                  /\ \/ Advance("_cleanup_mlflow_endpoints")
                     \/ Raise("NotFound") /\ UNCHANGED idx
    /\ UNCHANGED <<cfgVars, unique_name, streams, models, pending, experiments,
                   feature_tables, nsVars, computeVars, printed_no_action, matched,
                   polls, outer, races>>

\* Another reclamation run deletes an endpoint this run has listed.
EnvDropEndpoint ==
    /\ pc = "_cleanup_mlflow_endpoints:delete"
    /\ races < MaxRaces
    /\ \E i \in 1..Len(endpoints) : endpoints' = Without(endpoints, endpoints[i])
    /\ races' = races + 1
    /\ UNCHANGED <<cfgVars, unique_name, streams, models, pending, experiments,
                   feature_tables, nsVars, computeVars, pc, status, ret, log, raised,
                   printed_no_action, loopVars, acted>>

\* ------------------------------------------------------------------ models
active_stages == {"production", "staging"}

NamesOf(ms) == [i \in 1..Len(ms) |-> ms[i].name]
HasModel(n) == \E i \in 1..Len(models) : models[i].name = n
StagesOf(n) == models[CHOOSE i \in 1..Len(models) : models[i].name = n].stages
RemoveNamed(ms, n) == SelectSeq(ms, LAMBDA m : m.name # n)

\* The stage looked up in active_stages as the platform spells it.
ActiveVersionsCaseSensitive(stages) == {v \in 1..Len(stages) : stages[v] \in active_stages}

\* The versions of a listing that the code takes for active: the stage is
\* lower-cased before it is looked up in active_stages.
ActiveVersions(stages) == {v \in 1..Len(stages) : Lower(stages[v]) \in active_stages}

RECURSIVE TransitionCallsFrom(_, _, _)
TransitionCallsFrom(name, stages, v) ==
    IF v > Len(stages) THEN <<>>
    ELSE (IF v \in ActiveVersions(stages)
          THEN <<(<<"mlflow_model_versions.transition_stage", name, v, "archived">>)>>
          ELSE <<>>)
         \o TransitionCallsFrom(name, stages, v + 1)

\* _cleanup_mlflow_models, up to the loop over the selected models.
_cleanup_mlflow_models ==
    /\ pc = "_cleanup_mlflow_models"
    /\ unique_name' = _get_unique_name(lesson_only)
    /\ LET selected == FilterByName(NamesOf(models), unique_name', lesson_only)
       IN /\ Call(<<"mlflow_models.list", NamesOf(models)>>)
          /\ matched' = selected
          /\ idx' = 1
          /\ polls' = 0
          /\ IF Len(selected) = 0
             THEN Returns("_cleanup_mlflow_models", FALSE) /\ UNCHANGED raised
             ELSE Goto("_cleanup_mlflow_models:versions")
    /\ UNCHANGED <<cfgVars, streams, mlVars, nsVars, computeVars, printed_no_action,
                   outer, acted, races>>

\* The first loop over the versions of matched[idx]: every version in an
\* active stage is asked to move to "archived". A model that is gone lists
\* no versions or makes the listing raise.
_cleanup_mlflow_models_archive ==
    /\ pc = "_cleanup_mlflow_models:versions"
    /\ LET name == matched[idx]
       IN IF HasModel(name)
          THEN /\ log' = log \o <<(<<"mlflow_model_versions.list", name, StagesOf(name)>>)>>
                            \o TransitionCallsFrom(name, StagesOf(name), 1)
               /\ pending' = pending \cup {<<name, v>> : v \in ActiveVersions(StagesOf(name))}
               /\ Goto("_cleanup_mlflow_models:poll")
          ELSE /\ UNCHANGED pending
               /\ \/ /\ Call(<<"mlflow_model_versions.list", name, <<>>>>)
                     /\ Goto("_cleanup_mlflow_models:poll")
                  \/ /\ Call(<<"mlflow_model_versions.list:raised", name>>)
                     /\ Raise("NotFound")
    /\ polls' = 0
    /\ UNCHANGED <<cfgVars, unique_name, streams, endpoints, models, experiments,
                   feature_tables, nsVars, computeVars, printed_no_action, matched, idx,
                   outer, acted, races>>

\* A polling loop with a retry bound: it is also left after MaxPolls sleeps.
all_archived_or_timed_out(stages) == ActiveVersions(stages) = {} \/ polls = MaxPolls

\* The flag the polling loop tests: no version of the listing is in an active
\* stage. Nothing else ends the loop.
all_archived(stages) == ActiveVersions(stages) = {}

\* One pass of "while not all_archived": the versions are listed again; a
\* pass that finds an active version sleeps and repeats.
_cleanup_mlflow_models_poll ==
    /\ pc = "_cleanup_mlflow_models:poll"
    /\ LET name == matched[idx]
       IN IF HasModel(name)
          THEN /\ Call(<<"mlflow_model_versions.list", name, StagesOf(name)>>)
               /\ IF all_archived(StagesOf(name))
                  THEN Goto("_cleanup_mlflow_models:delete") /\ UNCHANGED polls
                  ELSE /\ polls < MaxPolls
                       /\ polls' = polls + 1
                       /\ Goto("_cleanup_mlflow_models:poll")
          ELSE /\ UNCHANGED polls
               /\ \/ /\ Call(<<"mlflow_model_versions.list", name, <<>>>>)
                     /\ Goto("_cleanup_mlflow_models:delete")
                  \/ /\ Call(<<"mlflow_model_versions.list:raised", name>>)
                     /\ Raise("NotFound")
    /\ UNCHANGED <<cfgVars, unique_name, streams, mlVars, nsVars, computeVars,
                   printed_no_action, matched, idx, outer, acted, races>>

\* A call of the first loop over the versions of a registered model fails:
\* the listing, or the transition of version v after those of the active
\* versions before it. Nothing around these calls catches anything.
_cleanup_mlflow_models_archive_raises ==
    /\ pc = "_cleanup_mlflow_models:versions"
    /\ LET name == matched[idx]
       IN /\ HasModel(name)
          /\ \/ /\ Call(<<"mlflow_model_versions.list:raised", name>>)
                /\ UNCHANGED pending
             \/ \E v \in ActiveVersions(StagesOf(name)) :
                   /\ log' = log \o <<(<<"mlflow_model_versions.list", name, StagesOf(name)>>)>>
                                 \o TransitionCallsFrom(name, SubSeq(StagesOf(name), 1, v - 1), 1)
                                 \o <<(<<"mlflow_model_versions.transition_stage:raised", name, v>>)>>
                   /\ pending' = pending \cup {<<name, w>> : w \in {x \in ActiveVersions(StagesOf(name)) : x < v}}
    /\ Raise("Error")
    /\ UNCHANGED <<cfgVars, unique_name, streams, endpoints, models, experiments,
                   feature_tables, nsVars, computeVars, printed_no_action, loopVars,
                   acted, races>>

\* The listing of a pass of the polling loop fails for a registered model.
_cleanup_mlflow_models_poll_raises ==
    /\ pc = "_cleanup_mlflow_models:poll"
    /\ HasModel(matched[idx])
    /\ Call(<<"mlflow_model_versions.list:raised", matched[idx]>>)
    /\ Raise("Error")
    /\ UNCHANGED <<cfgVars, unique_name, streams, mlVars, nsVars, computeVars,
                   printed_no_action, loopVars, acted, races>>

\* After the polling loop: delete_by_name, unguarded, then the next model.
_cleanup_mlflow_models_delete ==
    /\ pc = "_cleanup_mlflow_models:delete"
    /\ LET name == matched[idx]
       IN /\ Call(<<"mlflow_models.delete_by_name", name>>)
          /\ Acted("_cleanup_mlflow_models", HasModel(name))
          /\ IF HasModel(name)
             THEN /\ models' = RemoveNamed(models, name)
                  /\ pending' = {t \in pending : t[1] # name}
                  /\ IF idx = Len(matched)
                     THEN Returns("_cleanup_mlflow_models", TRUE) /\ UNCHANGED <<raised, idx>>
                     ELSE idx' = idx + 1 /\ Goto("_cleanup_mlflow_models:versions")
             ELSE /\ UNCHANGED <<models, pending>>
                  /\ \/ IF idx = Len(matched)
                        THEN Returns("_cleanup_mlflow_models", TRUE) /\ UNCHANGED <<raised, idx>>
                        ELSE idx' = idx + 1 /\ Goto("_cleanup_mlflow_models:versions")
                     \/ Raise("NotFound") /\ UNCHANGED idx
    /\ UNCHANGED <<cfgVars, unique_name, streams, endpoints, experiments, feature_tables,
                   nsVars, computeVars, printed_no_action, matched, polls, outer, races>>

\* The platform reflects a requested transition: the version is archived.
EnvReflectTransition ==
    /\ \E t \in pending :
         /\ pending' = pending \ {t}
         /\ models' = [i \in 1..Len(models) |->
                          IF models[i].name = t[1]
                          THEN [models[i] EXCEPT !.stages[t[2]] = "Archived"]
                          ELSE models[i]]
    /\ UNCHANGED <<cfgVars, unique_name, streams, endpoints, experiments, feature_tables,
                   nsVars, computeVars, pc, status, ret, log, raised, printed_no_action,
                   loopVars, acted, races>>

\* Another reclamation run deletes a registered model this run has listed.
EnvDropModel ==
    /\ pc \in {"_cleanup_mlflow_models:versions", "_cleanup_mlflow_models:poll",
               "_cleanup_mlflow_models:delete"}
    /\ races < MaxRaces
    /\ \E i \in 1..Len(models) :
         /\ models' = RemoveNamed(models, models[i].name)
         /\ pending' = {t \in pending : t[1] # models[i].name}
    /\ races' = races + 1
    /\ UNCHANGED <<cfgVars, unique_name, streams, endpoints, experiments, feature_tables,
                   nsVars, computeVars, pc, status, ret, log, raised, printed_no_action,
                   loopVars, acted>>

\* ------------------------------------------------------------- experiments
HasExperiment(n) == \E i \in 1..Len(experiments) : experiments[i].name = n
ObjectTypeOf(n) ==
    experiments[CHOOSE i \in 1..Len(experiments) : experiments[i].name = n].object_type

\* The list comprehension of _cleanup_experiments: the last "/" component
\* of the name starts with the unique name, whatever the scope.
RECURSIVE FilterExperiments(_, _)
FilterExperiments(names, uname) ==
    IF names = <<>> THEN <<>>
    ELSE (IF StartsWith(Last(Split(Head(names), "/")), uname)
          THEN <<Head(names)>> ELSE <<>>)
         \o FilterExperiments(Tail(names), uname)

\* _cleanup_experiments, up to the loop; _get_unique_name is evaluated once
\* per experiment found, so not at all when the search returns nothing.
_cleanup_experiments ==
    /\ pc = "_cleanup_experiments"
    /\ unique_name' = IF Len(experiments) = 0 THEN unique_name
                      ELSE _get_unique_name(lesson_only)
    /\ LET selected == FilterExperiments(NamesOf(experiments), _get_unique_name(lesson_only))
       IN /\ Call(<<"mlflow.search_experiments", NamesOf(experiments)>>)
          /\ matched' = selected
          /\ idx' = 1
          /\ IF Len(selected) = 0
             THEN Returns("_cleanup_experiments", FALSE) /\ UNCHANGED raised
             ELSE Goto("_cleanup_experiments:status")
    /\ UNCHANGED <<cfgVars, streams, mlVars, nsVars, computeVars, printed_no_action,
                   polls, outer, acted, races>>

\* One iteration of "for experiment in experiments", up to the test of the
\* workspace object's type.
_cleanup_experiments_status ==
    /\ pc = "_cleanup_experiments:status"
    /\ LET name == matched[idx]
       IN /\ Call(<<"workspace.get_status", name>>)
          /\ IF HasExperiment(name) /\ ObjectTypeOf(name) = "MLFLOW_EXPERIMENT"
             THEN Goto("_cleanup_experiments:delete") /\ UNCHANGED idx
             ELSE Advance("_cleanup_experiments")
    /\ UNCHANGED <<cfgVars, unique_name, streams, mlVars, nsVars, computeVars,
                   printed_no_action, matched, polls, outer, acted, races>>

\* mlflow.delete_experiment, unguarded: it raises for an experiment that is gone.
_cleanup_experiments_delete ==
    /\ pc = "_cleanup_experiments:delete"
    /\ LET name == matched[idx]
       IN /\ Call(<<"mlflow.delete_experiment", name>>)
          /\ Acted("_cleanup_experiments", HasExperiment(name))
          /\ IF HasExperiment(name)
             THEN /\ experiments' = RemoveNamed(experiments, name)
                  /\ IF idx = Len(matched)
                     THEN Returns("_cleanup_experiments", TRUE) /\ UNCHANGED <<raised, idx>>
                     ELSE idx' = idx + 1 /\ Goto("_cleanup_experiments:status")
             ELSE UNCHANGED experiments /\ Raise("RestException") /\ UNCHANGED idx
    /\ UNCHANGED <<cfgVars, unique_name, streams, endpoints, models, pending,
                   feature_tables, nsVars, computeVars, printed_no_action, matched,
                   polls, outer, races>>

\* Another reclamation run deletes an experiment this run has found.
EnvDropExperiment ==
    /\ pc \in {"_cleanup_experiments:status", "_cleanup_experiments:delete"}
    /\ races < MaxRaces
    /\ \E i \in 1..Len(experiments) :
         experiments' = RemoveNamed(experiments, experiments[i].name)
    /\ races' = races + 1
    /\ UNCHANGED <<cfgVars, unique_name, streams, endpoints, models, pending,
                   feature_tables, nsVars, computeVars, pc, status, ret, log, raised,
                   printed_no_action, loopVars, acted>>

\* -------------------------------------------------------------- namespaces
\* Names the helper and dbh_constants supply, as sequences of tokens.
catalog_name_prefix == <<"dbacademy">>
catalog_name == <<"dbacademy", "u1">>
schema_name_prefix == <<"d">>
schema_name == <<"d", "a_u1">>
CATALOG_SPARK_DEFAULT == <<"spark_catalog">>
CATALOG_UC_DEFAULT == <<"hive_metastore">>
SCHEMA_DEFAULT == <<"d", "efault">>
\* The catalog an unqualified schema name resolves in.
CurrentCatalog == CATALOG_UC_DEFAULT

working_dir == <<"working_dir">>
working_dir_root == <<"working_dir_root">>
datasets == <<"datasets">>
archives == <<"archives">>
LocationOf(schema) == <<"location">> \o schema.catalog \o schema.name

SqlOutcomes == {"ok", "AnalysisException", "Error"}

\* A drop statement with no except clause around it.
PropagatesEveryError(o) == o # "ok"

\* "except AnalysisException: pass" around a drop statement: only an error
\* of another kind leaves the handler.
Propagates(o) == o = "Error"

\* _drop_database on the schema: the calls it issues, given whether the
\* DESCRIBE succeeds (d), how the DROP ends (o) and whether fs.rm succeeds (r).
\* Only an AnalysisException of the DROP is caught; fs.rm is called with the
\* location read, or with None, and whatever it raises is ignored.
_drop_database(schema, d, o) ==
    <<(<<"DESCRIBE", schema, d>>), (<<"DROP DATABASE", schema, o>>)>>
    \o (IF Propagates(o) THEN <<>>
        ELSE <<(<<"fs.rm", IF d THEN LocationOf(schema) ELSE None>>)>>)

SchemasAfterDrop(schema, o) == IF o = "ok" THEN schemas \ {schema} ELSE schemas

PathsAfterDrop(schema, d, o, r) ==
    IF ~Propagates(o) /\ d /\ r THEN paths \ {LocationOf(schema)} ELSE paths

\* _drop_catalog: nothing is looked up before the DROP CATALOG IF EXISTS.
_drop_catalog ==
    /\ pc = "_drop_catalog"
    /\ IF ~create_catalog
       THEN /\ Returns("_drop_catalog", FALSE)
            /\ UNCHANGED <<raised, log, catalogs, schemas, acted>>
       ELSE \E o \in SqlOutcomes :
            /\ Call(<<"DROP CATALOG", catalog_name, o>>)
            /\ IF o = "ok"
               THEN /\ catalogs' = Without(catalogs, catalog_name)
                    /\ schemas' = {x \in schemas : x.catalog # catalog_name}
                    /\ Acted("_drop_catalog", InSeq(catalogs, catalog_name))
               ELSE UNCHANGED <<catalogs, schemas, acted>>
            /\ IF Propagates(o)
               THEN Raise("Error")
               ELSE Returns("_drop_catalog", TRUE) /\ UNCHANGED raised
    /\ UNCHANGED <<cfgVars, unique_name, streams, mlVars, paths, computeVars,
                   printed_no_action, loopVars, races>>

\* _drop_schema without its first test.
SchemaDropNeverSkipped == FALSE

\* The first test of _drop_schema: a session that owns a catalog has no
\* schema to drop.
SchemaDropSkipped == create_catalog

\* _drop_schema, with the _drop_database it calls.
_drop_schema ==
    /\ pc = "_drop_schema"
    /\ LET schema == [catalog |-> CurrentCatalog, name |-> schema_name]
       IN IF SchemaDropSkipped
          THEN /\ Returns("_drop_schema", FALSE)
               /\ UNCHANGED <<raised, log, schemas, paths, acted>>
          ELSE IF schema \notin schemas
          THEN /\ Call(<<"SHOW DATABASES", CurrentCatalog>>)
               /\ Returns("_drop_schema", FALSE)
               /\ UNCHANGED <<raised, schemas, paths, acted>>
          ELSE \E d \in BOOLEAN, o \in SqlOutcomes, r \in BOOLEAN :
               /\ (~d \/ o = "Error") => r
               /\ log' = log \o <<(<<"SHOW DATABASES", CurrentCatalog>>)>>
                             \o _drop_database(schema, d, o)
               /\ schemas' = SchemasAfterDrop(schema, o)
               /\ paths' = PathsAfterDrop(schema, d, o, r)
               /\ Acted("_drop_schema", o = "ok")
               /\ IF Propagates(o)
                  THEN Raise("Error")
                  ELSE Returns("_drop_schema", TRUE) /\ UNCHANGED raised
    /\ UNCHANGED <<cfgVars, unique_name, streams, mlVars, catalogs, computeVars,
                   printed_no_action, loopVars, races>>

\* _cleanup_working_dir: the rm is issued only for a directory that exists.
_cleanup_working_dir ==
    /\ pc = "_cleanup_working_dir"
    /\ IF working_dir \notin paths
       THEN /\ Call(<<"exists", working_dir>>)
            /\ UNCHANGED <<paths, acted>>
            /\ Returns("_cleanup_working_dir", FALSE)
       ELSE /\ log' = log \o <<(<<"exists", working_dir>>), (<<"fs.rm", working_dir>>)>>
            /\ paths' = paths \ {working_dir}
            /\ Acted("_cleanup_working_dir", TRUE)
            /\ Returns("_cleanup_working_dir", TRUE)
    /\ UNCHANGED <<cfgVars, unique_name, streams, mlVars, catalogs, schemas,
                   computeVars, raised, printed_no_action, loopVars, races>>

\* ---------------------------------------------------------- workspace reset
\* _drop_feature_store_tables: the tables whose name starts with the prefix
\* are dropped one after the other.
RECURSIVE DropTableCalls(_)
DropTableCalls(ts) == IF ts = <<>> THEN <<>>
                      ELSE <<(<<"feature_store.drop_table", Head(ts)>>)>> \o DropTableCalls(Tail(ts))

_drop_feature_store_tables ==
    /\ pc = "_drop_feature_store_tables"
    /\ LET prefix == IF lesson_only THEN schema_name ELSE schema_name_prefix
           found == SelectSeq(feature_tables, LAMBDA t : StartsWith(t, prefix))
       IN /\ log' = log \o <<(<<"feature_store.search_tables", feature_tables>>)>>
                         \o DropTableCalls(found)
          /\ feature_tables' = SelectSeq(feature_tables, LAMBDA t : ~StartsWith(t, prefix))
          /\ Acted("_drop_feature_store_tables", Len(found) > 0)
          /\ Returns("_drop_feature_store_tables", Len(found) > 0)
    /\ UNCHANGED <<cfgVars, unique_name, streams, endpoints, models, pending, experiments,
                   nsVars, computeVars, raised, printed_no_action, loopVars, races>>

RECURSIVE SeqOf(_)
SeqOf(S) == IF S = {} THEN <<>>
            ELSE LET x == CHOOSE y \in S : TRUE IN <<x>> \o SeqOf(S \ {x})

\* __reset_databases, first loop: the catalogs listed whose name starts with
\* the catalog prefix.
__reset_databases ==
    /\ pc = "__reset_databases"
    /\ Call(<<"SHOW CATALOGS", catalogs>>)
    /\ matched' = SelectSeq(catalogs, LAMBDA c : StartsWith(c, catalog_name_prefix))
    /\ idx' = 1
    /\ Goto(IF matched' = <<>> THEN "__reset_databases:refresh" ELSE "__reset_databases:catalog")
    /\ UNCHANGED <<cfgVars, unique_name, streams, mlVars, nsVars, computeVars,
                   printed_no_action, polls, outer, acted, races>>

\* One DROP CATALOG of the first loop; only an AnalysisException is caught.
__reset_databases_drop_catalog ==
    /\ pc = "__reset_databases:catalog"
    /\ \E o \in SqlOutcomes :
         /\ Call(<<"DROP CATALOG", matched[idx], o>>)
         /\ IF o = "ok"
            THEN /\ catalogs' = Without(catalogs, matched[idx])
                 /\ schemas' = {x \in schemas : x.catalog # matched[idx]}
                 /\ Acted("__reset_databases", InSeq(catalogs, matched[idx]))
            ELSE UNCHANGED <<catalogs, schemas, acted>>
         /\ IF Propagates(o) THEN Raise("Error") /\ UNCHANGED idx
            ELSE IF idx = Len(matched)
            THEN Goto("__reset_databases:refresh") /\ UNCHANGED idx
            ELSE idx' = idx + 1 /\ Goto("__reset_databases:catalog")
    /\ UNCHANGED <<cfgVars, unique_name, streams, mlVars, paths, computeVars,
                   printed_no_action, matched, polls, outer, races>>

\* The catalogs are listed again; the second loop visits the default ones.
__reset_databases_list_catalogs ==
    /\ pc = "__reset_databases:refresh"
    /\ Call(<<"SHOW CATALOGS", catalogs>>)
    /\ outer' = SelectSeq(catalogs, LAMBDA c : c \in {CATALOG_SPARK_DEFAULT, CATALOG_UC_DEFAULT})
    /\ Goto(IF outer' = <<>> THEN After("__reset_databases") ELSE "__reset_databases:schemas")
    /\ UNCHANGED <<cfgVars, unique_name, streams, mlVars, nsVars, computeVars,
                   printed_no_action, matched, idx, polls, acted, races>>

\* The schema test of the second loop without the protected default schema.
DroppableSchemaUnprotected(name) == StartsWith(name, schema_name_prefix)

\* The schema test of the second loop: the name starts with the schema
\* prefix and is not the default schema.
DroppableSchema(name) == StartsWith(name, schema_name_prefix) /\ name # SCHEMA_DEFAULT

\* SHOW DATABASES IN the next default catalog, and the schemas to drop there.
__reset_databases_list_schemas ==
    /\ pc = "__reset_databases:schemas"
    /\ Call(<<"SHOW DATABASES", Head(outer)>>)
    /\ matched' = SeqOf({x \in schemas : x.catalog = Head(outer) /\ DroppableSchema(x.name)})
    /\ idx' = 1
    /\ IF matched' # <<>>
       THEN Goto("__reset_databases:schema") /\ UNCHANGED outer
       ELSE /\ outer' = Tail(outer)
            /\ Goto(IF outer' = <<>> THEN After("__reset_databases")
                                     ELSE "__reset_databases:schemas")
    /\ UNCHANGED <<cfgVars, unique_name, streams, mlVars, nsVars, computeVars,
                   printed_no_action, polls, acted, races>>

\* One _drop_database of the second loop.
__reset_databases_drop_schema ==
    /\ pc = "__reset_databases:schema"
    /\ \E d \in BOOLEAN, o \in SqlOutcomes, r \in BOOLEAN :
         /\ (~d \/ o = "Error") => r
         /\ log' = log \o _drop_database(matched[idx], d, o)
         /\ schemas' = SchemasAfterDrop(matched[idx], o)
         /\ paths' = PathsAfterDrop(matched[idx], d, o, r)
         /\ Acted("__reset_databases", o = "ok" /\ matched[idx] \in schemas)
         /\ IF Propagates(o) THEN Raise("Error") /\ UNCHANGED <<idx, outer>>
            ELSE IF idx < Len(matched)
            THEN idx' = idx + 1 /\ Goto("__reset_databases:schema") /\ UNCHANGED outer
            ELSE /\ outer' = Tail(outer)
                 /\ UNCHANGED idx
                 /\ Goto(IF outer' = <<>> THEN After("__reset_databases")
                                          ELSE "__reset_databases:schemas")
    /\ UNCHANGED <<cfgVars, unique_name, streams, mlVars, catalogs, computeVars,
                   printed_no_action, matched, polls, races>>

\* __reset_datasets: the rm is issued when the datasets path exists.
__reset_datasets ==
    /\ pc = "__reset_datasets"
    /\ log' = log \o <<(<<"exists", datasets>>)>>
                  \o (IF datasets \in paths THEN <<(<<"fs.rm", datasets>>)>> ELSE <<>>)
    /\ paths' = paths \ {datasets}
    /\ Acted("__reset_datasets", datasets \in paths)
    /\ Goto(After("__reset_datasets"))
    /\ UNCHANGED <<cfgVars, unique_name, streams, mlVars, catalogs, schemas,
                   computeVars, printed_no_action, loopVars, races>>

\* __reset_archives: the path tested is paths.datasets, the path removed is
\* paths.archives.
__reset_archives ==
    /\ pc = "__reset_archives"
    /\ log' = log \o <<(<<"exists", datasets>>)>>
                  \o (IF datasets \in paths THEN <<(<<"fs.rm", archives>>)>> ELSE <<>>)
    /\ paths' = IF datasets \in paths THEN paths \ {archives} ELSE paths
    /\ Acted("__reset_archives", datasets \in paths /\ archives \in paths)
    /\ Goto(After("__reset_archives"))
    /\ UNCHANGED <<cfgVars, unique_name, streams, mlVars, catalogs, schemas,
                   computeVars, printed_no_action, loopVars, races>>

\* __reset_working_dir: the rm is issued when the root exists.
__reset_working_dir ==
    /\ pc = "__reset_working_dir"
    /\ log' = log \o <<(<<"exists", working_dir_root>>)>>
                  \o (IF working_dir_root \in paths
                      THEN <<(<<"fs.rm", working_dir_root>>)>> ELSE <<>>)
    /\ paths' = paths \ {working_dir_root}
    /\ Acted("__reset_working_dir", working_dir_root \in paths)
    /\ Goto(After("__reset_working_dir"))
    /\ UNCHANGED <<cfgVars, unique_name, streams, mlVars, catalogs, schemas,
                   computeVars, printed_no_action, loopVars, races>>

\* ----------------------------------------------------- pools and policies
POOLS == <<"DBAcademy">>
POLICIES == <<"DBAcademy", "DBAcademy Jobs-Only">>

\* The loop "for name in ..." of a compute handler moves on.
NextName(h) ==
    IF idx = Len(matched)
    THEN Goto(After(h)) /\ UNCHANGED idx
    ELSE idx' = idx + 1 /\ Goto(h \o ":lookup")

__drop_instance_pool ==
    /\ pc = "__drop_instance_pool"
    /\ matched' = POOLS
    /\ idx' = 1
    /\ Goto("__drop_instance_pool:lookup")
    /\ UNCHANGED <<cfgVars, unique_name, streams, mlVars, nsVars, computeVars, log,
                   printed_no_action, polls, outer, acted, races>>

\* instance_pools.get_by_name for the next pool name.
__drop_instance_pool_lookup ==
    /\ pc = "__drop_instance_pool:lookup"
    /\ Call(<<"instance_pools.get_by_name", matched[idx]>>)
    /\ IF matched[idx] \in pools
       THEN Goto("__drop_instance_pool:delete") /\ UNCHANGED idx
       ELSE NextName("__drop_instance_pool")
    /\ UNCHANGED <<cfgVars, unique_name, streams, mlVars, nsVars, computeVars,
                   printed_no_action, matched, polls, outer, acted, races>>

\* instance_pools.delete_by_name, unguarded.
__drop_instance_pool_delete ==
    /\ pc = "__drop_instance_pool:delete"
    /\ Call(<<"instance_pools.delete_by_name", matched[idx]>>)
    /\ Acted("__drop_instance_pool", matched[idx] \in pools)
    /\ pools' = pools \ {matched[idx]}
    /\ \/ NextName("__drop_instance_pool")
       \/ matched[idx] \notin pools /\ Raise("NotFound") /\ UNCHANGED idx
    /\ UNCHANGED <<cfgVars, unique_name, streams, mlVars, nsVars, policies,
                   printed_no_action, matched, polls, outer, races>>

\* Another reclamation run deletes the pool this run has looked up.
EnvDropPool ==
    /\ pc = "__drop_instance_pool:delete"
    /\ races < MaxRaces
    /\ \E x \in pools : pools' = pools \ {x}
    /\ races' = races + 1
    /\ UNCHANGED <<cfgVars, unique_name, streams, mlVars, nsVars, policies, pc, status,
                   ret, log, raised, printed_no_action, loopVars, acted>>

__drop_cluster_policies ==
    /\ pc = "__drop_cluster_policies"
    /\ matched' = POLICIES
    /\ idx' = 1
    /\ Goto("__drop_cluster_policies:lookup")
    /\ UNCHANGED <<cfgVars, unique_name, streams, mlVars, nsVars, computeVars, log,
                   printed_no_action, polls, outer, acted, races>>

\* cluster_policies.get_by_name for the next policy name.
__drop_cluster_policies_lookup ==
    /\ pc = "__drop_cluster_policies:lookup"
    /\ Call(<<"cluster_policies.get_by_name", matched[idx]>>)
    /\ IF matched[idx] \in policies
       THEN Goto("__drop_cluster_policies:delete") /\ UNCHANGED idx
       ELSE NextName("__drop_cluster_policies")
    /\ UNCHANGED <<cfgVars, unique_name, streams, mlVars, nsVars, computeVars,
                   printed_no_action, matched, polls, outer, acted, races>>

\* cluster_policies.delete_by_name, unguarded.
__drop_cluster_policies_delete ==
    /\ pc = "__drop_cluster_policies:delete"
    /\ Call(<<"cluster_policies.delete_by_name", matched[idx]>>)
    /\ Acted("__drop_cluster_policies", matched[idx] \in policies)
    /\ policies' = policies \ {matched[idx]}
    /\ \/ NextName("__drop_cluster_policies")
       \/ matched[idx] \notin policies /\ Raise("NotFound") /\ UNCHANGED idx
    /\ UNCHANGED <<cfgVars, unique_name, streams, mlVars, nsVars, pools,
                   printed_no_action, matched, polls, outer, races>>

\* Another reclamation run deletes the policy this run has looked up.
EnvDropPolicy ==
    /\ pc = "__drop_cluster_policies:delete"
    /\ races < MaxRaces
    /\ \E x \in policies : policies' = policies \ {x}
    /\ races' = races + 1
    /\ UNCHANGED <<cfgVars, unique_name, streams, mlVars, nsVars, pools, pc, status,
                   ret, log, raised, printed_no_action, loopVars, acted>>

\* ------------------------------------------------------------ initial states
NameExact == <<"u", "1">>
NameLonger == <<"u", "1", "0">>
NameTwice == <<"u", "1", "_", "u", "1">>
NameOther == <<"0">>
ExperimentPath == <<"/", "u", "1">>

Stages == {"Production", "Staging", "Archived", "None"}
StagesUpTo(n) == UNION {[1..k -> Stages] : k \in 0..n}

\* A WorkspaceCleaner right after __init__, about to run method e.
InitRun(e) ==
    /\ entry = e
    /\ unique_name = None
    /\ pc = IF e \in {"reset_lesson", "reset_learning_environment"} THEN "clearCache" ELSE e
    /\ status = FALSE
    /\ ret = [h \in Handlers |-> "none"]
    /\ log = <<>>
    /\ raised = "none"
    /\ printed_no_action = FALSE
    /\ matched = <<>>
    /\ idx = 0
    /\ polls = 0
    /\ outer = <<>>
    /\ acted = {}
    /\ races = 0

\* reset_lesson on a workspace that holds at most one resource per family.
InitLesson ==
    /\ InitRun("reset_lesson")
    /\ lesson_only = TRUE
    /\ enable_ml_support \in BOOLEAN
    /\ create_catalog \in BOOLEAN
    /\ session_name = NameExact
    /\ workspace_name = <<"u">>
    /\ streams \in SUBSET (1..MaxStreams)
    /\ endpoints \in {<<>>, <<NameExact>>}
    /\ models \in {<<>>, <<[name |-> NameExact, stages |-> <<"Staging">>]>>}
    /\ pending = {}
    /\ experiments \in {<<>>, <<[name |-> ExperimentPath, object_type |-> "MLFLOW_EXPERIMENT"]>>,
                         <<[name |-> ExperimentPath, object_type |-> "NOTEBOOK"]>>}
    /\ feature_tables = <<>>
    /\ catalogs \in {<<>>, <<catalog_name>>}
    /\ schemas \in SUBSET {[catalog |-> CurrentCatalog, name |-> schema_name]}
    /\ paths \in SUBSET {working_dir}
    /\ pools = {}
    /\ policies = {}

NextLesson ==
    \/ ClearCache
    \/ _stop_all_streams
    \/ _stop_all_streams_loop
    \/ EnvStreamEnds
    \/ _cleanup_mlflow_endpoints
    \/ _cleanup_mlflow_endpoints_delete
    \/ EnvDropEndpoint
    \/ _cleanup_mlflow_models
    \/ _cleanup_mlflow_models_archive
    \/ _cleanup_mlflow_models_poll
    \/ _cleanup_mlflow_models_delete
    \/ EnvReflectTransition
    \/ EnvDropModel
    \/ _cleanup_experiments
    \/ _cleanup_experiments_status
    \/ _cleanup_experiments_delete
    \/ EnvDropExperiment
    \/ _drop_catalog
    \/ _drop_schema
    \/ _cleanup_working_dir
    \/ Summary

SpecLesson == InitLesson /\ [][NextLesson]_vars

\* A schema of another owner: its name does not start with the schema prefix.
SCHEMA_OTHER == <<"o", "ther">>

\* reset_learning_environment on a workspace that holds the default catalog
\* and schema and, per family, nothing or the resources of one session.
InitWorkspace ==
    /\ InitRun("reset_learning_environment")
    /\ lesson_only = FALSE
    /\ enable_ml_support \in BOOLEAN
    /\ create_catalog = FALSE
    /\ session_name = NameExact
    /\ workspace_name = <<"u">>
    /\ streams \in SUBSET (1..MaxStreams)
    /\ \E ml \in {"none", "serving", "tracking"} :
         /\ endpoints = IF ml = "serving" THEN <<NameLonger>> ELSE <<>>
         /\ models = IF ml = "serving"
                     THEN <<[name |-> NameLonger, stages |-> <<"Production">>]>> ELSE <<>>
         /\ experiments = IF ml = "tracking"
                          THEN <<[name |-> ExperimentPath, object_type |-> "MLFLOW_EXPERIMENT"]>>
                          ELSE <<>>
         /\ feature_tables = IF ml = "tracking" THEN <<(<<"d", "a_u1", "t">>)>> ELSE <<>>
    /\ pending = {}
    /\ catalogs \in {<<CATALOG_SPARK_DEFAULT, CATALOG_UC_DEFAULT>>,
                      <<catalog_name, CATALOG_UC_DEFAULT>>}
    /\ schemas \in {{[catalog |-> CATALOG_UC_DEFAULT, name |-> SCHEMA_DEFAULT]},
                     {[catalog |-> CATALOG_UC_DEFAULT, name |-> SCHEMA_DEFAULT],
                      [catalog |-> CATALOG_UC_DEFAULT, name |-> schema_name],
                      [catalog |-> CATALOG_UC_DEFAULT, name |-> SCHEMA_OTHER]}
                     \cup (IF InSeq(catalogs, catalog_name)
                           THEN {[catalog |-> catalog_name, name |-> schema_name]}
                           ELSE {})}
    /\ paths \in {{}, {archives, working_dir_root}, {datasets, archives, working_dir_root}}
    /\ \E compute \in BOOLEAN :
         /\ pools = IF compute THEN {POOLS[1]} ELSE {}
         /\ policies = IF compute THEN {POLICIES[1], POLICIES[2]} ELSE {}

NextWorkspace ==
    \/ ClearCache
    \/ _stop_all_streams
    \/ _stop_all_streams_loop
    \/ EnvStreamEnds
    \/ _drop_feature_store_tables
    \/ _cleanup_mlflow_endpoints
    \/ _cleanup_mlflow_endpoints_delete
    \/ EnvDropEndpoint
    \/ _cleanup_mlflow_models
    \/ _cleanup_mlflow_models_archive
    \/ _cleanup_mlflow_models_poll
    \/ _cleanup_mlflow_models_archive_raises
    \/ _cleanup_mlflow_models_poll_raises
    \/ _cleanup_mlflow_models_delete
    \/ EnvReflectTransition
    \/ EnvDropModel
    \/ _cleanup_experiments
    \/ _cleanup_experiments_status
    \/ _cleanup_experiments_delete
    \/ EnvDropExperiment
    \/ __reset_databases
    \/ __reset_databases_drop_catalog
    \/ __reset_databases_list_catalogs
    \/ __reset_databases_list_schemas
    \/ __reset_databases_drop_schema
    \/ __reset_datasets
    \/ __reset_archives
    \/ __reset_working_dir
    \/ __drop_instance_pool
    \/ __drop_instance_pool_lookup
    \/ __drop_instance_pool_delete
    \/ EnvDropPool
    \/ __drop_cluster_policies
    \/ __drop_cluster_policies_lookup
    \/ __drop_cluster_policies_delete
    \/ EnvDropPolicy
    \/ Summary

SpecWorkspace == InitWorkspace /\ [][NextWorkspace]_vars

\* The workspace told apart from its ML families: nothing else exists.
NoOtherResources ==
    /\ enable_ml_support = TRUE
    /\ create_catalog = FALSE
    /\ streams = {}
    /\ pending = {}
    /\ experiments = <<>>
    /\ feature_tables = <<>>
    /\ catalogs = <<CATALOG_UC_DEFAULT>>
    /\ schemas = {[catalog |-> CATALOG_UC_DEFAULT, name |-> SCHEMA_DEFAULT]}
    /\ paths = {}
    /\ pools = {}
    /\ policies = {}

\* _cleanup_mlflow_models invoked with either scope on a registry of up to
\* two models that have up to MaxVersions versions between them, in any stage.
ModelListings == {<<>>, <<NameExact>>, <<NameTwice>>, <<NameLonger, NameOther>>,
                  <<NameTwice, NameExact>>}

InitModels ==
    /\ InitRun("_cleanup_mlflow_models")
    /\ lesson_only \in BOOLEAN
    /\ session_name = NameExact
    /\ workspace_name = <<"u">>
    /\ NoOtherResources
    /\ endpoints = <<>>
    /\ \E names \in ModelListings :
         \E st \in [1..Len(names) -> StagesUpTo(MaxVersions)] :
            /\ (Len(names) = 2 => Len(st[1]) + Len(st[2]) <= MaxVersions)
            /\ models = [i \in 1..Len(names) |-> [name |-> names[i], stages |-> st[i]]]

NextModels ==
    \/ _cleanup_mlflow_models
    \/ _cleanup_mlflow_models_archive
    \/ _cleanup_mlflow_models_poll
    \/ _cleanup_mlflow_models_delete
    \/ EnvReflectTransition
    \/ EnvDropModel

SpecModels == InitModels /\ [][NextModels]_vars

\* Either name-matching handler invoked with either scope and any unique
\* name, on a listing of one candidate with any name up to MaxNameLen.
InitMatch ==
    /\ \E e \in {"_cleanup_mlflow_endpoints", "_cleanup_mlflow_models"} : InitRun(e)
    /\ lesson_only \in BOOLEAN
    /\ session_name \in UniqueNames
    /\ workspace_name = session_name
    /\ NoOtherResources
    /\ \E n \in NamesUpTo(MaxNameLen) :
         /\ endpoints = IF entry = "_cleanup_mlflow_endpoints" THEN <<n>> ELSE <<>>
         /\ models = IF entry = "_cleanup_mlflow_models"
                     THEN <<[name |-> n, stages |-> <<"None">>]>> ELSE <<>>

NextMatch ==
    \/ _cleanup_mlflow_endpoints
    \/ _cleanup_mlflow_endpoints_delete
    \/ _cleanup_mlflow_models
    \/ _cleanup_mlflow_models_archive
    \/ _cleanup_mlflow_models_poll
    \/ _cleanup_mlflow_models_delete

SpecMatch == InitMatch /\ [][NextMatch]_vars

\* One storage-path handler invoked on any combination of existing paths.
StoragePaths == {working_dir, working_dir_root, datasets, archives}

InitPaths ==
    /\ \E e \in {"_cleanup_working_dir", "__reset_working_dir", "__reset_datasets",
                  "__reset_archives"} : InitRun(e)
    /\ lesson_only = FALSE
    /\ enable_ml_support = FALSE
    /\ create_catalog = FALSE
    /\ session_name = NameExact
    /\ workspace_name = <<"u">>
    /\ streams = {}
    /\ endpoints = <<>> /\ models = <<>> /\ experiments = <<>> /\ feature_tables = <<>>
    /\ pending = {}
    /\ catalogs = <<CATALOG_UC_DEFAULT>>
    /\ schemas = {[catalog |-> CATALOG_UC_DEFAULT, name |-> SCHEMA_DEFAULT]}
    /\ paths \in SUBSET StoragePaths
    /\ pools = {}
    /\ policies = {}

NextPaths ==
    \/ _cleanup_working_dir
    \/ __reset_working_dir
    \/ __reset_datasets
    \/ __reset_archives

SpecPaths == InitPaths /\ [][NextPaths]_vars

\* One of the three name-scoped handlers invoked with either scope and any
\* unique name, on a listing of one candidate with any name up to MaxNameLen;
\* an experiment is named by a path whose last component is the candidate.
InitScope ==
    /\ \E e \in {"_cleanup_mlflow_endpoints", "_cleanup_mlflow_models",
                  "_cleanup_experiments"} : InitRun(e)
    /\ lesson_only \in BOOLEAN
    /\ session_name \in UniqueNames
    /\ workspace_name = session_name
    /\ enable_ml_support = TRUE
    /\ create_catalog = FALSE
    /\ streams = {}
    /\ pending = {}
    /\ feature_tables = <<>>
    /\ catalogs = <<CATALOG_UC_DEFAULT>>
    /\ schemas = {[catalog |-> CATALOG_UC_DEFAULT, name |-> SCHEMA_DEFAULT]}
    /\ paths = {}
    /\ pools = {}
    /\ policies = {}
    /\ \E n \in NamesUpTo(MaxNameLen) :
         /\ endpoints = IF entry = "_cleanup_mlflow_endpoints" THEN <<n>> ELSE <<>>
         /\ models = IF entry = "_cleanup_mlflow_models"
                     THEN <<[name |-> n, stages |-> <<"None">>]>> ELSE <<>>
         /\ experiments = IF entry = "_cleanup_experiments"
                          THEN <<[name |-> <<"/">> \o n, object_type |-> "MLFLOW_EXPERIMENT"]>>
                          ELSE <<>>

NextScope ==
    \/ _cleanup_mlflow_endpoints
    \/ _cleanup_mlflow_endpoints_delete
    \/ _cleanup_mlflow_models
    \/ _cleanup_mlflow_models_archive
    \/ _cleanup_mlflow_models_poll
    \/ _cleanup_mlflow_models_delete
    \/ _cleanup_experiments
    \/ _cleanup_experiments_status
    \/ _cleanup_experiments_delete

SpecScope == InitScope /\ [][NextScope]_vars

\* reset_lesson without ML support on a workspace with up to MaxStreams active
\* streams, any of whose awaits may raise.
InitStreams ==
    /\ InitRun("reset_lesson")
    /\ lesson_only = TRUE
    /\ enable_ml_support = FALSE
    /\ create_catalog \in BOOLEAN
    /\ session_name = NameExact
    /\ workspace_name = <<"u">>
    /\ streams \in SUBSET (1..MaxStreams)
    /\ endpoints = <<>> /\ models = <<>> /\ experiments = <<>> /\ feature_tables = <<>>
    /\ pending = {}
    /\ catalogs \in {<<>>, <<catalog_name>>}
    /\ schemas \in SUBSET {[catalog |-> CurrentCatalog, name |-> schema_name]}
    /\ paths \in SUBSET {working_dir}
    /\ pools = {}
    /\ policies = {}

NextStreams ==
    \/ ClearCache
    \/ _stop_all_streams
    \/ _stop_all_streams_loop
    \/ _stop_all_streams_loop_await_raises
    \/ EnvStreamEnds
    \/ _drop_catalog
    \/ _drop_schema
    \/ _cleanup_working_dir
    \/ Summary

SpecStreams == InitStreams /\ [][NextStreams]_vars

\* _cleanup_mlflow_models on a registry no other run touches, with a platform
\* that reflects every requested transition in the end: the handler keeps
\* running, and a transition that was requested is not left pending for ever.
\* No name of these listings is selected twice.
LiveListings == {<<NameExact>>, <<NameLonger, NameOther>>, <<NameLonger, NameExact>>}

InitModelsLive ==
    /\ InitRun("_cleanup_mlflow_models")
    /\ lesson_only \in BOOLEAN
    /\ session_name = NameExact
    /\ workspace_name = <<"u">>
    /\ NoOtherResources
    /\ endpoints = <<>>
    /\ \E names \in LiveListings :
         \E st \in [1..Len(names) -> StagesUpTo(MaxVersions)] :
            /\ (Len(names) = 2 => Len(st[1]) + Len(st[2]) <= MaxVersions)
            /\ models = [i \in 1..Len(names) |-> [name |-> names[i], stages |-> st[i]]]

HandlerStepModels ==
    \/ _cleanup_mlflow_models
    \/ _cleanup_mlflow_models_archive
    \/ _cleanup_mlflow_models_poll
    \/ _cleanup_mlflow_models_delete

NextModelsLive ==
    \/ _cleanup_mlflow_models
    \/ _cleanup_mlflow_models_archive
    \/ _cleanup_mlflow_models_poll
    \/ _cleanup_mlflow_models_delete
    \/ EnvReflectTransition

SpecModelsLive ==
    /\ InitModelsLive
    /\ [][NextModelsLive]_vars
    /\ WF_vars(HandlerStepModels)
    /\ WF_vars(EnvReflectTransition)

\* The resource of another session of the same course: it starts with the
\* workspace-wide name and is not the name of this session.
NameSibling == <<"u", "2">>

\* The caller invokes a reset method again on the same WorkspaceCleaner once
\* the previous call has returned or raised. The locals of the call start
\* afresh; self.__unique_name is a field of the object and stays as it is.
Invoke ==
    /\ pc \in {"done", "raised"}
    /\ \E e \in {"reset_lesson", "reset_learning_environment"} :
         /\ entry' = e
         /\ lesson_only' = (e = "reset_lesson")
    /\ pc' = "clearCache"
    /\ status' = FALSE
    /\ ret' = [h \in Handlers |-> "none"]
    /\ log' = <<>>
    /\ raised' = "none"
    /\ printed_no_action' = FALSE
    /\ matched' = <<>>
    /\ idx' = 0
    /\ polls' = 0
    /\ outer' = <<>>
    /\ acted' = {}
    /\ UNCHANGED <<enable_ml_support, create_catalog, session_name, workspace_name,
                   unique_name, streams, mlVars, nsVars, computeVars, races>>

\* A WorkspaceCleaner with ML support on which the two reset methods are
\* invoked one after the other, in any order and any number of times, on a
\* workspace that holds the resources of this session and of a sibling.
InitSequence ==
    /\ \E e \in {"reset_lesson", "reset_learning_environment"} :
         /\ InitRun(e)
         /\ lesson_only = (e = "reset_lesson")
    /\ enable_ml_support = TRUE
    /\ create_catalog = FALSE
    /\ session_name = NameExact
    /\ workspace_name = <<"u">>
    /\ streams \in SUBSET (1..MaxStreams)
    /\ endpoints \in {<<>>, <<NameExact, NameSibling>>}
    /\ models \in {<<>>, <<[name |-> NameSibling, stages |-> <<"Staging">>]>>}
    /\ pending = {}
    /\ experiments \in {<<>>, <<[name |-> ExperimentPath, object_type |-> "MLFLOW_EXPERIMENT"]>>}
    /\ feature_tables = <<(<<"d", "a_u1", "t">>)>>
    /\ catalogs = <<catalog_name, CATALOG_UC_DEFAULT>>
    /\ schemas = {[catalog |-> CATALOG_UC_DEFAULT, name |-> SCHEMA_DEFAULT],
                  [catalog |-> CATALOG_UC_DEFAULT, name |-> schema_name]}
    /\ paths = {working_dir, datasets, archives, working_dir_root}
    /\ pools = {POOLS[1]}
    /\ policies = {POLICIES[1]}

NextSequence ==
    \/ Invoke
    \/ ClearCache
    \/ _stop_all_streams
    \/ _stop_all_streams_loop
    \/ _drop_feature_store_tables
    \/ _cleanup_mlflow_endpoints
    \/ _cleanup_mlflow_endpoints_delete
    \/ _cleanup_mlflow_models
    \/ _cleanup_mlflow_models_archive
    \/ _cleanup_mlflow_models_poll
    \/ _cleanup_mlflow_models_delete
    \/ EnvReflectTransition
    \/ _cleanup_experiments
    \/ _cleanup_experiments_status
    \/ _cleanup_experiments_delete
    \/ _drop_catalog
    \/ _drop_schema
    \/ _cleanup_working_dir
    \/ __reset_databases
    \/ __reset_databases_drop_catalog
    \/ __reset_databases_list_catalogs
    \/ __reset_databases_list_schemas
    \/ __reset_databases_drop_schema
    \/ __reset_datasets
    \/ __reset_archives
    \/ __reset_working_dir
    \/ __drop_instance_pool
    \/ __drop_instance_pool_lookup
    \/ __drop_instance_pool_delete
    \/ __drop_cluster_policies
    \/ __drop_cluster_policies_lookup
    \/ __drop_cluster_policies_delete
    \/ Summary

SpecSequence == InitSequence /\ [][NextSequence]_vars

\* ================================================================== claims
Calls(op) == {k \in 1..Len(log) : log[k][1] = op}
CallsOn(op, name) == {k \in 1..Len(log) : log[k][1] = op /\ log[k][2] = name}

\* ---- C1
RECURSIVE FlatSplit(_, _)
FlatSplit(parts, c) == IF parts = <<>> THEN <<>>
                       ELSE Split(Head(parts), c) \o FlatSplit(Tail(parts), c)

\* The segments of a name as the specification counts them.
Segments(name) == FlatSplit(Split(name, "_"), "-")

SpecifiedMatch(lessonOnly, uname, name) ==
    \E i \in 1..Len(Segments(name)) :
        IF lessonOnly THEN Segments(name)[i] = uname
        ELSE StartsWith(Segments(name)[i], uname)

\* C1: in the model and endpoint handlers a listed candidate, its name made
\* of segments delimited by "_" or "-", is selected exactly when, under
\* lesson_only, one of its segments equals the unique name and, otherwise,
\* one of them starts with it; so for unique name "u1" the candidate "u10" is
\* not selected under lesson_only, and an empty name is never selected.
C1_SelectedIffSegmentMatches ==
    \A k \in Calls("serving_endpoints.list") \cup Calls("mlflow_models.list") :
        \A i \in 1..Len(log[k][2]) :
            /\ InSeq(matched, log[k][2][i])
                  <=> SpecifiedMatch(lesson_only, unique_name, log[k][2][i])
            /\ log[k][2][i] = <<>> => ~InSeq(matched, log[k][2][i])

\* ---- C2
ReportsActive(stages) == \E v \in 1..Len(stages) : stages[v] \in {"Production", "Staging"}
IsVersionsList(k) == log[k][1] = "mlflow_model_versions.list"
IsTransition(k) == log[k][1] = "mlflow_model_versions.transition_stage"
\* The listing that opens the staged deletion of a model: the one that
\* follows the registry listing or the delete of the model before.
IsFirstListing(k) ==
    /\ IsVersionsList(k)
    /\ k > 1
    /\ log[k-1][1] \in {"mlflow_models.list", "mlflow_models.delete_by_name"}
\* The transition calls that directly follow position k.
TransitionsAfter(k) ==
    {m \in (k+1)..Len(log) : \A j \in (k+1)..m : IsTransition(j)}

\* C2: the first listing of a model is followed by exactly one transition to
\* "archived" per version it reports in production or staging and by none for
\* another version; the delete of the model directly follows a later listing
\* of it that reports no version in production or staging.
C2_StagedDeletion ==
    /\ \A k \in 1..Len(log) : IsFirstListing(k) =>
          /\ \A v \in 1..Len(log[k][3]) :
                Cardinality({m \in TransitionsAfter(k) :
                               log[m][2] = log[k][2] /\ log[m][3] = v /\ log[m][4] = "archived"})
                  = IF log[k][3][v] \in {"Production", "Staging"} THEN 1 ELSE 0
          /\ Cardinality(TransitionsAfter(k))
                = Cardinality({v \in 1..Len(log[k][3]) : log[k][3][v] \in {"Production", "Staging"}})
    /\ \A m \in 1..Len(log) : IsTransition(m) =>
          \E k \in 1..(m-1) : IsFirstListing(k) /\ m \in TransitionsAfter(k)
    /\ \A d \in Calls("mlflow_models.delete_by_name") :
          /\ d > 2
          /\ IsVersionsList(d-1) /\ log[d-1][2] = log[d][2]
          /\ ~ReportsActive(log[d-1][3])
          /\ ~IsFirstListing(d-1)

\* A model listed with versions in production and staging was asked two
\* transitions, was polled while still active, and was deleted.
C2_Witness ==
    /\ pc = "done"
    /\ \E k \in 1..Len(log) :
          /\ IsFirstListing(k)
          /\ log[k][3] = <<"Production", "Staging">>
          /\ Cardinality(TransitionsAfter(k)) = 2
          /\ \E p \in (k+3)..Len(log) : IsVersionsList(p) /\ ReportsActive(log[p][3])
          /\ \E d \in CallsOn("mlflow_models.delete_by_name", log[k][2]) : d > k

\* ---- C3
\* C3: one handler invocation issues at most one delete_by_name per name,
\* and exactly one for every selected name once it has returned.
C3_DeleteOncePerResource ==
    /\ \A k \in 1..Len(log) :
          log[k][1] \in {"serving_endpoints.delete_by_name", "mlflow_models.delete_by_name"}
             => Cardinality(CallsOn(log[k][1], log[k][2])) = 1
    /\ pc = "done" =>
          \A i \in 1..Len(matched) :
             Cardinality(CallsOn("serving_endpoints.delete_by_name", matched[i])
                         \cup CallsOn("mlflow_models.delete_by_name", matched[i])) = 1

\* ---- C4
DeleteOps == {"serving_endpoints.delete_by_name", "mlflow_models.delete_by_name",
              "mlflow.delete_experiment", "instance_pools.delete_by_name",
              "cluster_policies.delete_by_name"}

\* C4: a delete that fails with "not found", the resource having been removed
\* by another run after it was listed, does not make the handler raise.
C4_NotFoundOnDeleteTolerated ==
    ~(/\ pc = "raised"
      /\ raised \in {"NotFound", "RestException"}
      /\ log[Len(log)][1] \in DeleteOps)

\* ---- C5
DestructiveOps == DeleteOps \cup {"stream.stop", "feature_store.drop_table", "DROP CATALOG",
                                  "DROP DATABASE", "fs.rm"}

\* Nothing of the session is left in the workspace.
SessionClean ==
    /\ streams = {}
    /\ endpoints = <<>> /\ models = <<>> /\ experiments = <<>>
    /\ ~InSeq(catalogs, catalog_name)
    /\ [catalog |-> CurrentCatalog, name |-> schema_name] \notin schemas
    /\ working_dir \notin paths

\* C5: a reset_lesson that ran on an already clean environment (it is clean
\* at the end, and neither this run nor another one removed anything) issued
\* no destructive call and printed "No action taken".
C5_ResetOfCleanEnvironmentDoesNothing ==
    (pc = "done" /\ SessionClean /\ acted = {} /\ races = 0)
        => /\ \A k \in 1..Len(log) : log[k][1] \notin DestructiveOps
           /\ printed_no_action

\* ---- C6
\* C6: in reset_learning_environment every stream stop precedes every catalog
\* or schema drop, and every pool or policy delete follows every drop or
\* delete of another family.
C6_WorkspaceResetOrder ==
    /\ \A i \in Calls("stream.stop") :
          \A j \in Calls("DROP CATALOG") \cup Calls("DROP DATABASE") : i < j
    /\ \A i \in Calls("instance_pools.delete_by_name")
                   \cup Calls("cluster_policies.delete_by_name") :
          \A j \in 1..Len(log) :
             log[j][1] \in DestructiveOps \ {"instance_pools.delete_by_name",
                                             "cluster_policies.delete_by_name"} => j < i

\* A completed workspace reset that stopped a stream, deleted an endpoint,
\* dropped a catalog and a schema, removed a path, a pool and a policy.
C6_Witness ==
    /\ pc = "done"
    /\ entry = "reset_learning_environment"
    /\ \A op \in {"stream.stop", "serving_endpoints.delete_by_name", "DROP CATALOG",
                   "DROP DATABASE", "fs.rm", "instance_pools.delete_by_name",
                   "cluster_policies.delete_by_name"} : Calls(op) # {}

\* ---- C7
IsListError(k) == log[k][1] = "serving_endpoints.list:raised"
IsFeatureDisabledError(k) ==
    /\ IsListError(k)
    /\ log[k][2].http_code = 404
    /\ log[k][2].error_code = "FEATURE_DISABLED"

\* C7: after serving_endpoints.list() raised 404 / FEATURE_DISABLED the
\* handler has returned false without a delete and without raising, and the
\* reset is at its next step; after any other error of the listing the run
\* has ended with that error and the handler has returned nothing.
C7_FeatureDisabledTolerated ==
    \A k \in 1..Len(log) :
       /\ IsFeatureDisabledError(k) =>
             /\ ret["_cleanup_mlflow_endpoints"] = "False"
             /\ Calls("serving_endpoints.delete_by_name") = {}
             /\ raised # "DatabricksApiException"
             /\ k = Len(log) => (pc = "_cleanup_mlflow_models" /\ raised = "none")
       /\ (IsListError(k) /\ ~IsFeatureDisabledError(k)) =>
             /\ k = Len(log)
             /\ pc = "raised"
             /\ raised = "DatabricksApiException"
             /\ ret["_cleanup_mlflow_endpoints"] = "none"

\* The listing raised "feature disabled" while a matching endpoint existed,
\* and the reset went on to the end.
C7_Witness ==
    /\ pc = "done"
    /\ \E k \in 1..Len(log) : IsFeatureDisabledError(k)
    /\ InSeq(endpoints, NameExact)
    /\ Calls("mlflow_models.list") # {}

\* ---- C8
\* The step of reset_lesson a platform call belongs to.
StepOf(k) ==
    CASE log[k][1] = "clearCache" -> 1
      [] log[k][1] \in {"active_streams", "stream.stop", "stream.awaitTermination"} -> 2
      [] log[k][1] \in {"serving_endpoints.list", "serving_endpoints.list:raised",
                        "serving_endpoints.delete_by_name"} -> 3
      [] log[k][1] \in {"mlflow_models.list", "mlflow_model_versions.list",
                        "mlflow_model_versions.list:raised",
                        "mlflow_model_versions.transition_stage",
                        "mlflow_models.delete_by_name"} -> 4
      [] log[k][1] \in {"mlflow.search_experiments", "workspace.get_status",
                        "mlflow.delete_experiment"} -> 5
      [] log[k][1] = "DROP CATALOG" -> 6
      [] log[k][1] \in {"SHOW DATABASES", "DESCRIBE", "DROP DATABASE"} -> 7
      [] log[k][1] = "fs.rm" -> IF log[k][2] = working_dir THEN 8 ELSE 7
      [] log[k][1] = "exists" -> 8
      [] OTHER -> 0

\* C8: the calls of reset_lesson come in the order cache clear, streams,
\* endpoints, models, experiments, catalog, schema, working directory; the
\* three ML steps occur when ML support is enabled and not otherwise; a run
\* that completes started with the cache clear and, if it removed the
\* working directory, did so with its last call.
C8_LessonResetOrder ==
    /\ \A k \in 1..(Len(log) - 1) : StepOf(k) <= StepOf(k + 1)
    /\ \A k \in 1..Len(log) : StepOf(k) # 0
    /\ \A k \in 1..Len(log) : StepOf(k) \in {3, 4, 5} => enable_ml_support
    /\ pc = "done" =>
          /\ log[1][1] = "clearCache"
          /\ Calls("active_streams") # {}
          /\ enable_ml_support =>
                /\ Calls("serving_endpoints.list") \cup Calls("serving_endpoints.list:raised") # {}
                /\ Calls("mlflow_models.list") # {}
                /\ Calls("mlflow.search_experiments") # {}
          /\ create_catalog <=> Calls("DROP CATALOG") # {}
          /\ ~create_catalog <=> Calls("SHOW DATABASES") # {}
          /\ log[Len(log)] \in {<<"exists", working_dir>>, <<"fs.rm", working_dir>>}
          /\ \A k \in CallsOn("fs.rm", working_dir) : k = Len(log)

\* A completed session reset that stopped a stream, deleted an endpoint,
\* dropped the schema and removed the working directory.
C8_Witness ==
    /\ pc = "done"
    /\ entry = "reset_lesson"
    /\ \A op \in {"stream.stop", "serving_endpoints.delete_by_name",
                   "mlflow_models.delete_by_name", "mlflow.delete_experiment",
                   "DROP DATABASE"} : Calls(op) # {}
    /\ log[Len(log)] = <<"fs.rm", working_dir>>

\* ---- C9
LessonHandlers ==
    {"_stop_all_streams", "_drop_catalog", "_drop_schema", "_cleanup_working_dir"}
    \cup (IF enable_ml_support
          THEN {"_cleanup_mlflow_endpoints", "_cleanup_mlflow_models", "_cleanup_experiments"}
          ELSE {})

\* C9: a completed reset_lesson has invoked every handler of its sequence,
\* whatever the earlier ones returned, and has printed "No action taken"
\* exactly when none of them returned true.
C9_NoActionIffAllFalse ==
    pc = "done" =>
       /\ \A h \in LessonHandlers : ret[h] # "none"
       /\ printed_no_action <=> \A h \in Handlers : ret[h] # "True"

\* The first handler returned true and the last one was still invoked.
C9_Witness ==
    /\ pc = "done"
    /\ ret["_stop_all_streams"] = "True"
    /\ ret["_drop_schema"] = "False"
    /\ ret["_cleanup_working_dir"] = "True"
    /\ ~printed_no_action

\* ---- C10
\* C10: a handler of reset_lesson returns true only if it stopped, dropped
\* or deleted something that existed, and false only if it did not.
C10_OutcomeTruthful ==
    \A h \in LessonHandlers :
       /\ ret[h] = "True" => h \in acted
       /\ ret[h] = "False" => h \notin acted

\* ---- C11
\* C11: in reset_lesson the catalog drop and the schema drop exclude each
\* other: a DROP CATALOG is issued only when create_catalog is set, a DROP
\* DATABASE only when it is not, so the two are never issued in one run and
\* _drop_catalog and _drop_schema never both return true.
C11_CatalogXorSchema ==
    /\ Calls("DROP CATALOG") # {} => create_catalog
    /\ Calls("DROP DATABASE") # {} => ~create_catalog
    /\ ~(Calls("DROP CATALOG") # {} /\ Calls("DROP DATABASE") # {})
    /\ ~(ret["_drop_catalog"] = "True" /\ ret["_drop_schema"] = "True")
    /\ pc = "done" => (ret["_drop_catalog"] = "False" \/ ret["_drop_schema"] = "False")

\* A completed run that dropped the catalog while the session schema existed
\* and left the schema alone.
C11_Witness ==
    /\ pc = "done"
    /\ Calls("DROP CATALOG") # {}
    /\ ret["_drop_catalog"] = "True"
    /\ ret["_drop_schema"] = "False"
    /\ [catalog |-> CurrentCatalog, name |-> schema_name] \in schemas

\* ---- C12
\* C12: a recursive delete of a storage path (working directory, its root,
\* datasets, archives) directly follows the existence test of that same path,
\* and is issued only for a path that exists.
C12_RemoveOnlyAfterOwnExistenceTest ==
    /\ \A k \in 1..Len(log) :
          (log[k][1] = "fs.rm" /\ log[k][2] \in StoragePaths)
             => (k > 1 /\ log[k-1] = <<"exists", log[k][2]>>)
    /\ (\E k \in 1..Len(log) : log[k][1] = "fs.rm" /\ log[k][2] \in StoragePaths)
          => acted # {}

\* ---- C13
\* The matcher of the specification, with the segments of a name taken either
\* way: delimited by "_" alone, or by "_" and "-".
MatcherAccepts(lessonOnly, uname, name) ==
    \/ SpecifiedMatch(lessonOnly, uname, name)
    \/ \E i \in 1..Len(Split(name, "_")) :
          IF lessonOnly THEN Split(name, "_")[i] = uname
          ELSE StartsWith(Split(name, "_")[i], uname)

\* C13: an endpoint, model or experiment is deleted only if the matcher
\* accepts its name under the scope of the invocation (for an experiment, the
\* last component of its path); so under lesson_only no experiment is deleted
\* whose name has no segment equal to the unique name.
C13_DeletedOnlyIfMatcherAccepts ==
    \A k \in 1..Len(log) :
       /\ log[k][1] \in {"serving_endpoints.delete_by_name", "mlflow_models.delete_by_name"}
             => MatcherAccepts(lesson_only, unique_name, log[k][2])
       /\ log[k][1] = "mlflow.delete_experiment"
             => MatcherAccepts(lesson_only, unique_name, Last(Split(log[k][2], "/")))

\* ---- C14
IsVersionsError(k) ==
    log[k][1] \in {"mlflow_model_versions.list:raised",
                   "mlflow_model_versions.transition_stage:raised"}

\* C14: once a version listing or a stage transition has raised inside
\* _cleanup_mlflow_models, the run has ended with that error: the handler has
\* returned nothing, no delete_by_name was issued for that model, and no call
\* of a later step of reset_learning_environment follows.
C14_StagedDeletionErrorsPropagate ==
    \A k \in 1..Len(log) : IsVersionsError(k) =>
       /\ k = Len(log)
       /\ pc = "raised"
       /\ raised \in {"Error", "NotFound"}
       /\ ret["_cleanup_mlflow_models"] = "none"
       /\ ret["_cleanup_experiments"] = "none"
       /\ CallsOn("mlflow_models.delete_by_name", log[k][2]) = {}
       /\ Calls("SHOW CATALOGS") \cup Calls("exists") \cup Calls("instance_pools.get_by_name") = {}

\* A stage transition raised after the endpoints step had deleted an endpoint.
C14_Witness ==
    /\ pc = "raised"
    /\ log[Len(log)][1] = "mlflow_model_versions.transition_stage:raised"
    /\ Calls("serving_endpoints.delete_by_name") # {}
    /\ HasModel(log[Len(log)][2])

\* ---- C15
IsDrop(k) == log[k][1] \in {"DROP CATALOG", "DROP DATABASE"}
DropHandler(k) == IF log[k][1] = "DROP CATALOG" THEN "_drop_catalog" ELSE "_drop_schema"

\* C15: after the DROP CATALOG of _drop_catalog or the DROP DATABASE of
\* _drop_database raised an AnalysisException, the handler has returned true,
\* nothing was raised and reset_lesson is at its next step; after an error of
\* another kind the run has ended with it and the handler returned nothing.
C15_AnalysisErrorSuppressedAndCounted ==
    \A k \in 1..Len(log) : IsDrop(k) =>
       /\ log[k][3] = "AnalysisException" =>
             /\ ret[DropHandler(k)] = "True"
             /\ status
             /\ raised = "none"
             /\ pc \in {reset_lesson(DropHandler(k)), "_cleanup_working_dir", "summary", "done"}
             /\ log[k][1] = "DROP DATABASE" => (k < Len(log) /\ log[k+1][1] = "fs.rm")
       /\ log[k][3] = "Error" =>
             /\ k = Len(log)
             /\ pc = "raised"
             /\ raised = "Error"
             /\ ret[DropHandler(k)] = "none"

\* The DROP DATABASE raised an AnalysisException, the schema is still there,
\* _drop_schema returned true and the reset completed.
C15_Witness ==
    /\ pc = "done"
    /\ \E k \in Calls("DROP DATABASE") : log[k][3] = "AnalysisException"
    /\ ret["_drop_schema"] = "True"
    /\ [catalog |-> CurrentCatalog, name |-> schema_name] \in schemas
    /\ ~printed_no_action

\* ---- C16
\* C16: in _drop_database the DROP DATABASE of the schema directly follows
\* the lookup of its location, whether the lookup failed or not; after a
\* failed lookup no storage delete is issued for the entry; after a lookup
\* that succeeded the storage delete of the location read follows the drop.
C16_FailedLookupSkipsStorageCleanup ==
    \A k \in Calls("DESCRIBE") :
       /\ k < Len(log)
       /\ log[k+1][1] = "DROP DATABASE" /\ log[k+1][2] = log[k][2]
       /\ ~log[k][3] => ~(k + 2 <= Len(log) /\ log[k+2][1] = "fs.rm")
       /\ (log[k][3] /\ log[k+1][3] # "Error") =>
             (k + 2 <= Len(log) /\ log[k+2] = <<"fs.rm", LocationOf(log[k][2])>>)

CatalogListingsBefore(k) == {j \in Calls("SHOW CATALOGS") : j < k}

\* C18: in __reset_databases every DROP CATALOG names a catalog that starts
\* with the catalog prefix and is issued before the catalogs are listed again
\* and before any schema drop; when they are listed again, every catalog of
\* the first listing that starts with the prefix has been dropped; every
\* DROP DATABASE comes after the second listing and names a schema of one of
\* the two default catalogs that starts with the schema prefix and is not
\* the default schema.
C18_TwoPhaseNamespaceCleanup ==
    /\ \A i \in Calls("DROP CATALOG") :
          /\ StartsWith(log[i][2], catalog_name_prefix)
          /\ Cardinality(CatalogListingsBefore(i)) = 1
          /\ \A j \in Calls("DROP DATABASE") : i < j
    /\ \A j \in Calls("SHOW CATALOGS") : CatalogListingsBefore(j) # {} =>
          \A f \in CatalogListingsBefore(j) : \A n \in 1..Len(log[f][2]) :
             StartsWith(log[f][2][n], catalog_name_prefix)
                => \E i \in CallsOn("DROP CATALOG", log[f][2][n]) : f < i /\ i < j
    /\ \A j \in Calls("DROP DATABASE") :
          /\ Cardinality(CatalogListingsBefore(j)) = 2
          /\ log[j][2].catalog \in {CATALOG_SPARK_DEFAULT, CATALOG_UC_DEFAULT}
          /\ StartsWith(log[j][2].name, schema_name_prefix)
          /\ log[j][2].name # SCHEMA_DEFAULT

\* A completed workspace reset that dropped the session catalog, then the
\* session schema of a default catalog, and left the default schema and the
\* schema of another owner in place.
C18_Witness ==
    /\ pc = "done"
    /\ CallsOn("DROP CATALOG", catalog_name) # {}
    /\ CallsOn("DROP DATABASE", [catalog |-> CATALOG_UC_DEFAULT, name |-> schema_name]) # {}
    /\ [catalog |-> CATALOG_UC_DEFAULT, name |-> SCHEMA_DEFAULT] \in schemas
    /\ [catalog |-> CATALOG_UC_DEFAULT, name |-> SCHEMA_OTHER] \in schemas
    /\ [catalog |-> CATALOG_UC_DEFAULT, name |-> schema_name] \notin schemas


\* ---------------------------------------------------------------------- C19
PollingLoop == "_cleanup_mlflow_models:poll"
DeleteIssued(i) ==
    /\ i <= Len(matched)
    /\ CallsOn("mlflow_models.delete_by_name", matched[i]) # {}
ListsActiveVersion == HasModel(matched[idx]) /\ ActiveVersions(StagesOf(matched[idx])) # {}

\* C19: when the platform reflects every requested transition in the end, a
\* run that is in the polling loop for a selected model issues the delete of
\* that model in the end, and the handler returns; and no step leaves the
\* polling loop, issues the delete or ends the handler while the listing of
\* the model reports a version in an active stage, however many passes the
\* loop has made.
C19_PollingLoopWaitsAndEnds ==
    /\ \A i \in 1..2 : (pc = PollingLoop /\ idx = i) ~> DeleteIssued(i)
    /\ (pc = PollingLoop) ~> (pc = "done" /\ ret["_cleanup_mlflow_models"] = "True")
    /\ [][(pc = PollingLoop /\ ListsActiveVersion)
            => /\ pc' = PollingLoop
               /\ CallsOn("mlflow_models.delete_by_name", matched[idx])' = {}
               /\ ret' = ret /\ raised' = raised]_vars

\* The handler returned after a pass of the polling loop that found an active
\* version and slept, and after the delete of the model.
C19_Witness ==
    /\ pc = "done"
    /\ polls >= 1
    /\ ret["_cleanup_mlflow_models"] = "True"
    /\ DeleteIssued(1)

\* ---------------------------------------------------------------------- C20
\* The unique name of the scope the running call was invoked with.
ScopeName == IF lesson_only THEN session_name ELSE workspace_name

\* C20: in every call of a sequence of reset_lesson and
\* reset_learning_environment calls on one WorkspaceCleaner, the resources an
\* ML handler selects from the listing it has just read are those the filter
\* selects for the unique name of the scope of that call: the session name
\* under lesson_only=True, the workspace-wide name under lesson_only=False.
C20_MatchesAgainstNameOfScope ==
    Len(log) > 0 =>
       LET last == log[Len(log)]
       IN /\ last[1] \in {"serving_endpoints.list", "mlflow_models.list"}
                => matched = FilterByName(last[2], ScopeName, lesson_only)
          /\ last[1] = "mlflow.search_experiments"
                => matched = FilterExperiments(last[2], ScopeName)
====
